---- MODULE Spec2Model ----
(***************************************************************************)
(* Model of mrpt::obs::CObservation2DRangeScan: the record, its versioned  *)
(* binary codec (writeToStream / readFromStream), the three validity       *)
(* filters and the lazily built points-map cache.                          *)
(*                                                                         *)
(* Numbers.  TLC has integers only, so every real quantity is a fixed-point*)
(* integer and the arithmetic is exact (floating-point rounding is not     *)
(* modelled):                                                              *)
(*   angles    PI units = pi radians, so 1 rad = PI*7/22 units;            *)
(*   ranges    tenths of a metre;                                          *)
(*   cos, sin  thousandths, by Bhaskara's rational approximation.          *)
(* A float or double field is serialised as the little-endian bytes of its *)
(* fixed-point value, which stands for its IEEE bit pattern.               *)
(***************************************************************************)
EXTENDS Integers, Sequences, FiniteSets, TLC

(***************************************************************************)
(* Bounds of the model.                                                    *)
(***************************************************************************)
MaxN == 5
WireN == 3

(***************************************************************************)
(* Program constants.                                                      *)
(***************************************************************************)
PI == 2640
CurrentVersion == 7
DefaultMaxRange == 800
DefaultStdError == 1
SizeofDouble == 8
SizeofFloat == 4
SizeofUint32 == 4
SizeofUint64 == 8
SizeofChar == 1

Rad(num, den) == (num * PI * 7) \div (22 * den)

Abs(x) == IF x < 0 THEN -x ELSE x

Min(a, b) == IF a < b THEN a ELSE b

(* C++ conversion of a quotient to int: truncation toward zero.  *)
TruncDiv(a, b) ==
  IF b = 0 THEN 0
  ELSE IF (a >= 0) = (b > 0) THEN Abs(a) \div Abs(b)
  ELSE -(Abs(a) \div Abs(b))

(***************************************************************************)
(* The binary stream (mrpt::utils::CStream): a sequence of bytes.          *)
(* operator<< and WriteBufferFixEndianness write little-endian values,     *)
(* WriteBuffer writes raw bytes.                                           *)
(***************************************************************************)
RECURSIVE LE(_, _)
LE(v, w) == IF w = 0 THEN <<>> ELSE <<v % 256>> \o LE(v \div 256, w - 1)

RECURSIVE FromLE(_)
FromLE(b) == IF b = <<>> THEN 0 ELSE b[1] + 256 * FromLE(Tail(b))

RECURSIVE Flatten(_)
Flatten(ss) == IF ss = <<>> THEN <<>> ELSE Head(ss) \o Flatten(Tail(ss))

(* n elements of width w starting at buf[1]; an element past the end of    *)
(* the buffer is whatever lies behind it in memory (junk).                 *)
WriteBufferFixEndianness(buf, n, w, junk) ==
  Flatten([i \in 1..n |-> LE(IF i <= Len(buf) THEN buf[i] ELSE junk, w)])

WriteBuffer(buf, n, junk) ==
  [i \in 1..n |-> IF i <= Len(buf) THEN buf[i] ELSE junk]

WriteBool(b) == <<IF b THEN 1 ELSE 0>>

WriteString(s) == LE(Len(s), SizeofUint32) \o s

WritePose(p) ==
  LE(p.x, SizeofDouble) \o LE(p.y, SizeofDouble) \o LE(p.z, SizeofDouble)

(* Reading: the bytes at positions pos .. pos+w-1 (pos counts from 1).     *)
Bytes(in, pos, w) == SubSeq(in, pos, pos + w - 1)

ReadLE(in, pos, w) == FromLE(Bytes(in, pos, w))

ReadBufferFixEndianness(in, pos, n, w) ==
  [i \in 1..n |-> ReadLE(in, pos + (i - 1) * w, w)]

ReadBuffer(in, pos, n) == [i \in 1..n |-> in[pos + i - 1]]

ReadPose(in, pos) ==
  [x |-> ReadLE(in, pos, SizeofDouble),
   y |-> ReadLE(in, pos + SizeofDouble, SizeofDouble),
   z |-> ReadLE(in, pos + 2 * SizeofDouble, SizeofDouble)]

PoseBytes == 3 * SizeofDouble

(***************************************************************************)
(* The record.                                                             *)
(***************************************************************************)
VARIABLES
  scan,          \* std::vector<float>: the ranges
  validRange,    \* std::vector<char>: one validity byte per ray
  intensity,     \* std::vector<int32>: optional intensities
  aperture, rightToLeft, maxRange, sensorPose, stdError, timestamp,
  beamAperture, sensorLabel, deltaPitch,
  m_cachedMap,   \* <<>> when cleared, else <<the map the builder produced>>
  ptr_internal_build_points_map_from_scan2D,  \* TRUE once mrpt-maps set it
  out,           \* the stream last written: version tag, bytes, source record
  call           \* the last call: operation, arguments, exception, record before

obsVars == <<scan, validRange, intensity, aperture, rightToLeft, maxRange,
             sensorPose, stdError, timestamp, beamAperture, sensorLabel,
             deltaPitch>>

vars == <<scan, validRange, intensity, aperture, rightToLeft, maxRange,
          sensorPose, stdError, timestamp, beamAperture, sensorLabel,
          deltaPitch, m_cachedMap, ptr_internal_build_points_map_from_scan2D,
          out, call>>

This ==
  [scan |-> scan, validRange |-> validRange, intensity |-> intensity,
   aperture |-> aperture, rightToLeft |-> rightToLeft, maxRange |-> maxRange,
   sensorPose |-> sensorPose, stdError |-> stdError, timestamp |-> timestamp,
   beamAperture |-> beamAperture, sensorLabel |-> sensorLabel,
   deltaPitch |-> deltaPitch]

Assign(r) ==
  /\ scan' = r.scan
  /\ validRange' = r.validRange
  /\ intensity' = r.intensity
  /\ aperture' = r.aperture
  /\ rightToLeft' = r.rightToLeft
  /\ maxRange' = r.maxRange
  /\ sensorPose' = r.sensorPose
  /\ stdError' = r.stdError
  /\ timestamp' = r.timestamp
  /\ beamAperture' = r.beamAperture
  /\ sensorLabel' = r.sensorLabel
  /\ deltaPitch' = r.deltaPitch

NoPose == [x |-> 0, y |-> 0, z |-> 0]

NoStream ==
  [version |-> -1, bytes |-> <<>>, ok |-> FALSE, wire |-> <<>>,
   from |-> "none"]

(* CObservation2DRangeScan::CObservation2DRangeScan()  *)
Constructor ==
  [scan |-> <<>>, validRange |-> <<>>, intensity |-> <<>>,
   aperture |-> PI, rightToLeft |-> TRUE, maxRange |-> DefaultMaxRange,
   sensorPose |-> NoPose, stdError |-> DefaultStdError, timestamp |-> 0,
   beamAperture |-> 0, sensorLabel |-> <<>>, deltaPitch |-> 0]

(***************************************************************************)
(* What the last call did.  op: the operation; arg: its arguments; exc:    *)
(* the exception it left by ("none" when it returned); pre: the record     *)
(* before the call; oob: the indices at which it accessed validRange       *)
(* outside the vector (undefined behaviour).                               *)
(***************************************************************************)
Call(op, arg, exc, oob) ==
  [op |-> op, arg |-> arg, exc |-> exc, pre |-> This, oob |-> oob]

Init ==
  /\ scan = Constructor.scan
  /\ validRange = Constructor.validRange
  /\ intensity = Constructor.intensity
  /\ aperture = Constructor.aperture
  /\ rightToLeft = Constructor.rightToLeft
  /\ maxRange = Constructor.maxRange
  /\ sensorPose = Constructor.sensorPose
  /\ stdError = Constructor.stdError
  /\ timestamp = Constructor.timestamp
  /\ beamAperture = Constructor.beamAperture
  /\ sensorLabel = Constructor.sensorLabel
  /\ deltaPitch = Constructor.deltaPitch
  /\ m_cachedMap = <<>>
  /\ ptr_internal_build_points_map_from_scan2D = FALSE
  /\ out = NoStream
  /\ call = [op |-> "constructor", arg |-> <<>>, exc |-> "none",
             pre |-> Constructor, oob |-> {}]

(***************************************************************************)
(* Inputs.  The acquisition step assigns the record's public fields; the  *)
(* values are the spec's examples (ranges 0.2, 1.0, 2.0) and non-default   *)
(* scalars.  The arrays may be left with unequal lengths: that is the      *)
(* precondition violation the operations are specified against.            *)
(***************************************************************************)
RangeSamples == <<2, 10, 20>>

ScanInput(n) == [i \in 1..n |-> RangeSamples[((i - 1) % 3) + 1]]

ValidInputs(n) ==
  { [i \in 1..n |-> 1], [i \in 1..n |-> i % 2] }
    \cup (IF n > 0 THEN { [i \in 1..(n - 1) |-> 1] } ELSE {})

IntensityInputs(n) ==
  { <<>>, [i \in 1..n |-> 100 + i], [i \in 1..(n + 1) |-> 100 + i] }
    \cup (IF n > 1 THEN { [i \in 1..(n - 1) |-> 100 + i] } ELSE {})

ApertureInputs == { PI, 2 * PI }

Mounted == [x |-> 1, y |-> 0, z |-> 5]

Label == <<76, 49>>

Acquired(n, v, it, ap, rtl) ==
  [scan |-> ScanInput(n), validRange |-> v, intensity |-> it,
   aperture |-> ap, rightToLeft |-> rtl, maxRange |-> 15,
   sensorPose |-> Mounted, stdError |-> 2, timestamp |-> 1000,
   beamAperture |-> 5, sensorLabel |-> Label, deltaPitch |-> 3]

CodecRecords ==
  UNION { { Acquired(n, v, it, PI, TRUE) :
              v \in ValidInputs(n), it \in IntensityInputs(n) } :
          n \in {0, MaxN} }

FilterRecords ==
  UNION { { Acquired(n, v, <<>>, ap, rtl) :
              v \in ValidInputs(n), ap \in ApertureInputs, rtl \in BOOLEAN } :
          n \in 0..MaxN }

CacheRecords ==
  { Acquired(2, [i \in 1..2 |-> 1], <<>>, PI, rtl) : rtl \in BOOLEAN }

(* The external acquisition step populates a freshly constructed record.   *)
Populate(records) ==
  /\ call.op = "constructor"
  /\ \E r \in records :
       /\ Assign(r)
       /\ call' = Call("populate", <<>>, "none", {})
  /\ UNCHANGED <<m_cachedMap, ptr_internal_build_points_map_from_scan2D,
                 out>>

(***************************************************************************)
(* writeToStream(out, NULL): the bytes of the current layout.  The result  *)
(* is the bytes written and the exception, if any; ASSERT_ throws after    *)
(* the header is already in the stream.  junk is what &intensity[0] .. N   *)
(* reads behind a vector shorter than N.                                   *)
(***************************************************************************)
WriteHeader(r) ==
  LE(r.aperture, SizeofDouble) \o WriteBool(r.rightToLeft)
    \o LE(r.maxRange, SizeofFloat) \o WritePose(r.sensorPose)
    \o LE(Len(r.scan), SizeofUint32)

WriteIntensity(r, N, junk) ==
  WriteBool(r.intensity # <<>>)
    \o (IF r.intensity # <<>>
        THEN WriteBufferFixEndianness(r.intensity, N, SizeofFloat, junk)
        ELSE <<>>)

WriteToStream(r, junk) ==
  LET N == Len(r.scan) IN
  IF Len(r.validRange) # Len(r.scan)
  THEN [bytes |-> WriteHeader(r), exc |-> "ASSERT"]
  ELSE [bytes |->
          WriteHeader(r)
            \o (IF N > 0
                THEN WriteBufferFixEndianness(r.scan, N, SizeofFloat, junk)
                       \o WriteBuffer(r.validRange, SizeofChar * N, junk)
                ELSE <<>>)
            \o LE(r.stdError, SizeofFloat)
            \o LE(r.timestamp, SizeofUint64)
            \o LE(r.beamAperture, SizeofFloat)
            \o WriteString(r.sensorLabel)
            \o LE(r.deltaPitch, SizeofDouble)
            \o WriteIntensity(r, N, junk),
        exc |-> "none"]

(* The number of elements in the intensity block writeToStream writes.     *)
IntensityWritten(r) ==
  IF Len(r.validRange) = Len(r.scan) /\ r.intensity # <<>>
  THEN Len(r.scan) ELSE 0

JunkInputs == { 0, 77 }

(* The intensity values the stream's intensity block stands for.           *)
OverRead(r) == r.intensity # <<>> /\ Len(r.intensity) < Len(r.scan)

writeToStream ==
  /\ out = NoStream
  /\ \E junk \in (IF OverRead(This) /\ Len(validRange) = Len(scan)
                  THEN JunkInputs ELSE {0}) :
       LET w == WriteToStream(This, junk) IN
         /\ out' = [version |-> CurrentVersion, bytes |-> w.bytes,
                    ok |-> w.exc = "none", wire |-> This,
                    from |-> "writeToStream"]
         /\ call' = Call("writeToStream",
                       [intensityWritten |-> IntensityWritten(This)],
                       w.exc, {})
  /\ UNCHANGED obsVars
  /\ UNCHANGED <<m_cachedMap, ptr_internal_build_points_map_from_scan2D>>

(***************************************************************************)
(* readFromStream(in, version).  The legacy covariance block (a CMatrix:   *)
(* rows, cols, rows*cols floats) is read and discarded.                    *)
(***************************************************************************)
CovBytes(in, pos) ==
  2 * SizeofUint32
    + SizeofFloat * ReadLE(in, pos, SizeofUint32)
        * ReadLE(in, pos + SizeofUint32, SizeofUint32)

(* in >> aperture >> rightToLeft >> maxRange >> sensorPose [>> cov] >> N   *)
(* and the position of the first byte after N.                             *)
ReadHeader(in, hasCov) ==
  LET pR == 1 + SizeofDouble
      pM == pR + 1
      pP == pM + SizeofFloat
      pC == pP + PoseBytes
      pN == pC + (IF hasCov THEN CovBytes(in, pC) ELSE 0)
  IN [aperture |-> ReadLE(in, 1, SizeofDouble),
      rightToLeft |-> in[pR] # 0,
      maxRange |-> ReadLE(in, pM, SizeofFloat),
      sensorPose |-> ReadPose(in, pP),
      N |-> ReadLE(in, pN, SizeofUint32),
      next |-> pN + SizeofUint32]

(* The default filled in against the constructor's maxRange instead of    *)
(* the one the stream carries.                                             *)
DefaultValidRangeByDefaultMax(sc, mr) ==
  [i \in 1..Len(sc) |-> IF sc[i] < DefaultMaxRange THEN 1 ELSE 0]

(* validRange[i] = scan[i] < maxRange, stored in a char  *)
DefaultValidRange(sc, mr) ==
  [i \in 1..Len(sc) |-> IF sc[i] < mr THEN 1 ELSE 0]

(* DEG2RAD(num/den degrees), in angle units *)
DEG2RAD(num, den) == (num * PI) \div (den * 180)

(* beamAperture = DEG2RAD(0.25f) *)
DefaultBeamAperture == DEG2RAD(1, 4)

(* case 0: case 1: case 2: case 3:  *)
ReadV0to3(r, in, version) ==
  LET h == ReadHeader(in, TRUE)
      N == h.N
      sc == ReadBufferFixEndianness(in, h.next, N, SizeofFloat)
      pV == h.next + SizeofFloat * N
      pE == pV + (IF version >= 1 THEN SizeofChar * N ELSE 0)
      pT == pE + (IF version >= 2 THEN SizeofFloat ELSE 0)
  IN [r EXCEPT
        !.aperture = h.aperture,
        !.rightToLeft = h.rightToLeft,
        !.maxRange = h.maxRange,
        !.sensorPose = h.sensorPose,
        !.scan = sc,
        !.validRange = IF version >= 1 THEN ReadBuffer(in, pV, N)
                       ELSE DefaultValidRange(sc, h.maxRange),
        !.stdError = IF version >= 2 THEN ReadLE(in, pE, SizeofFloat)
                     ELSE DefaultStdError,
        !.timestamp = IF version >= 3 THEN ReadLE(in, pT, SizeofUint64)
                      ELSE r.timestamp,
        !.beamAperture = DefaultBeamAperture,
        !.deltaPitch = 0,
        !.sensorLabel = <<>>]

(* The reader with the has-intensity flag's byte not skipped.              *)
ReadIntensityAtFlag(old, in, pos, N, version) ==
  IF version >= 7 /\ in[pos] # 0 /\ N > 0
  THEN ReadBufferFixEndianness(in, pos, N, SizeofFloat)
  ELSE old

(* if (version>=7) { in >> hasIntensity; if (hasIntensity && N) ... }      *)
ReadIntensity(old, in, pos, N, version) ==
  IF version >= 7 /\ in[pos] # 0 /\ N > 0
  THEN ReadBufferFixEndianness(in, pos + 1, N, SizeofFloat)
  ELSE old

(* case 4: case 5: case 6: case 7:  *)
ReadV4to7(r, in, version) ==
  LET h == ReadHeader(in, version < 6)
      N == h.N
      pV == h.next + SizeofFloat * N
      pE == pV + SizeofChar * N
      pT == pE + SizeofFloat
      pB == pT + SizeofUint64
      pL == pB + SizeofFloat
      lab == IF version >= 5 THEN ReadLE(in, pL, SizeofUint32) ELSE 0
      pD == pL + SizeofUint32 + lab
      pI == IF version >= 5 THEN pD + SizeofDouble ELSE pL
  IN [r EXCEPT
        !.aperture = h.aperture,
        !.rightToLeft = h.rightToLeft,
        !.maxRange = h.maxRange,
        !.sensorPose = h.sensorPose,
        !.scan = ReadBufferFixEndianness(in, h.next, N, SizeofFloat),
        !.validRange = ReadBuffer(in, pV, SizeofChar * N),
        !.stdError = ReadLE(in, pE, SizeofFloat),
        !.timestamp = ReadLE(in, pT, SizeofUint64),
        !.beamAperture = ReadLE(in, pB, SizeofFloat),
        !.sensorLabel = IF version >= 5
                        THEN Bytes(in, pL + SizeofUint32, lab) ELSE <<>>,
        !.deltaPitch = IF version >= 5 THEN ReadLE(in, pD, SizeofDouble)
                       ELSE 0,
        !.intensity = ReadIntensity(r.intensity, in, pI, N, version)]

(* The switch without its default label: an unknown tag is read as the    *)
(* current layout.                                                         *)
ReadFromStreamNoDefault(r, in, version) ==
  IF version \in 0..3
  THEN [rec |-> ReadV0to3(r, in, version), exc |-> "none"]
  ELSE [rec |-> ReadV4to7(r, in, Min(version, CurrentVersion)),
        exc |-> "none"]

(* The switch: the record after the call and the exception thrown.         *)
ReadFromStream(r, in, version) ==
  IF version \in 0..3
  THEN [rec |-> ReadV0to3(r, in, version), exc |-> "none"]
  ELSE IF version \in 4..7
  THEN [rec |-> ReadV4to7(r, in, version), exc |-> "none"]
  ELSE [rec |-> r, exc |-> "UnknownVersion"]

(* m_cachedMap.clear() is the statement after the switch: a throw inside   *)
(* the switch skips it.                                                    *)
CacheAfterRead(cache, exc) == IF exc = "none" THEN <<>> ELSE cache

(***************************************************************************)
(* Streams to decode: one well-formed stream per historical version, laid  *)
(* out as that version's writer laid it out (the order in which            *)
(* readFromStream reads it), a stream with a version tag that is not       *)
(* known, and the stream writeToStream last produced.                      *)
(***************************************************************************)
Wire(n, hasIntensity) ==
  [scan |-> ScanInput(n),
   validRange |-> [i \in 1..n |-> IF i = 1 THEN 0 ELSE 1],
   intensity |-> IF hasIntensity THEN [i \in 1..n |-> 200 + i] ELSE <<>>,
   hasIntensity |-> hasIntensity,
   aperture |-> PI, rightToLeft |-> FALSE, maxRange |-> 15,
   sensorPose |-> [x |-> 2, y |-> 0, z |-> 0], stdError |-> 3,
   timestamp |-> 2000, beamAperture |-> 6, sensorLabel |-> <<77>>,
   deltaPitch |-> 4]

LegacyCov == LE(1, SizeofUint32) \o LE(1, SizeofUint32) \o LE(9, SizeofFloat)

LegacyStream(v, c) ==
  LET n == Len(c.scan) IN
  LE(c.aperture, SizeofDouble) \o WriteBool(c.rightToLeft)
    \o LE(c.maxRange, SizeofFloat) \o WritePose(c.sensorPose)
    \o (IF v < 6 THEN LegacyCov ELSE <<>>)
    \o LE(n, SizeofUint32)
    \o WriteBufferFixEndianness(c.scan, n, SizeofFloat, 0)
    \o (IF v >= 1 THEN WriteBuffer(c.validRange, n, 0) ELSE <<>>)
    \o (IF v >= 2 THEN LE(c.stdError, SizeofFloat) ELSE <<>>)
    \o (IF v >= 3 THEN LE(c.timestamp, SizeofUint64) ELSE <<>>)
    \o (IF v >= 4 THEN LE(c.beamAperture, SizeofFloat) ELSE <<>>)
    \o (IF v >= 5 THEN WriteString(c.sensorLabel)
                         \o LE(c.deltaPitch, SizeofDouble) ELSE <<>>)
    \o (IF v >= 7 THEN WriteBool(c.hasIntensity)
                         \o WriteBufferFixEndianness(c.intensity,
                              Len(c.intensity), SizeofFloat, 0)
        ELSE <<>>)

FileStream(v, h) ==
  [version |-> v,
   bytes |-> LegacyStream(Min(v, CurrentVersion), Wire(WireN, h)),
   ok |-> TRUE, wire |-> Wire(WireN, h), from |-> "file"]

StreamInputs ==
  { FileStream(v, FALSE) : v \in 0..(CurrentVersion + 1) }
    \cup { FileStream(v, TRUE) : v \in CurrentVersion..(CurrentVersion + 1) }

CacheStreams == { s \in StreamInputs : s.version >= CurrentVersion }

(* A stream from a file may be read when no written stream is pending or   *)
(* right after it was written; the stream last written is read back once.  *)
readFromStream(files) ==
  /\ \E s \in (IF out.ok /\ call.op # "writeToStream" THEN {}
               ELSE files)
            \cup (IF out.ok THEN {out} ELSE {}) :
       LET d == ReadFromStream(This, s.bytes, s.version) IN
         /\ Assign(d.rec)
         /\ m_cachedMap' = CacheAfterRead(m_cachedMap, d.exc)
         /\ call' = Call("readFromStream", s, d.exc, {})
         /\ out' = IF s = out THEN NoStream ELSE out
  /\ UNCHANGED ptr_internal_build_points_map_from_scan2D

(***************************************************************************)
(* Claims about the codec, checked under SpecCodec.                        *)
(***************************************************************************)
Decoded == call.op = "readFromStream" /\ call.exc = "none"

HasIntensityFlag(s) ==
  IF s.from = "file" THEN s.wire.hasIntensity ELSE s.wire.intensity # <<>>

RoundTripCase ==
  /\ Decoded
  /\ call.arg.from = "writeToStream"
  /\ Len(call.arg.wire.validRange) = Len(call.arg.wire.scan)
  /\ call.arg.wire.intensity # <<>>
  /\ Len(call.arg.wire.intensity) = Len(call.arg.wire.scan)

(* C1: decoding the bytes writeToStream produced (version 7) from a record *)
(* whose validRange has the length of scan and whose intensity is          *)
(* non-empty with that length gives back every field of that record,       *)
(* whatever the target record held.                                        *)
C1_RoundTrip == RoundTripCase => This = call.arg.wire

(* C1 witness: such a round trip into a record that held something else.   *)
C1_Witness ==
  /\ RoundTripCase
  /\ call.arg.version = CurrentVersion
  /\ Len(scan) = MaxN
  /\ call.pre # call.arg.wire
  /\ call.pre.scan # scan
  /\ This = call.arg.wire

IntensityWellFormed(r) ==
  r.intensity = <<>> \/ Len(r.intensity) = Len(r.scan)

(* C2 as claimed: after a successful decode of a version 0..6 stream, or   *)
(* of a version-7 stream whose flag is false, intensity is empty; and      *)
(* after every successful decode it is empty or as long as scan.  Stated   *)
(* for the decodes into a record whose intensity was empty or as long as   *)
(* its scan, which the claim covers with all others.                       *)
C2_IntensityEmptyWithoutFlag ==
  (Decoded /\ IntensityWellFormed(call.pre)) =>
    /\ (call.arg.version <= 6 \/ ~HasIntensityFlag(call.arg))
         => intensity = <<>>
    /\ intensity = <<>> \/ Len(intensity) = Len(scan)

(* C9 as claimed: writeToStream of a record whose intensity is non-empty   *)
(* with a length other than scan's throws, and the intensity block of a    *)
(* written stream holds as many elements as intensity has.                 *)
C9_EncodeRejectsIntensityMismatch ==
  (call.op = "writeToStream"
     /\ call.pre.intensity # <<>>
     /\ Len(call.pre.intensity) # Len(call.pre.scan))
    => (call.exc # "none"
          /\ call.arg.intensityWritten \in {0, Len(call.pre.intensity)})

(* C10: a decode with a version tag outside 0..7 throws UnknownVersion and *)
(* leaves every field of the record as it was.                             *)
C10_UnknownVersion ==
  (call.op = "readFromStream" /\ call.arg.version \notin 0..CurrentVersion)
    => (call.exc = "UnknownVersion" /\ This = call.pre)

(* C10 witness: an unknown tag met by a populated record.                  *)
C10_Witness ==
  /\ call.op = "readFromStream"
  /\ call.arg.version = CurrentVersion + 1
  /\ call.exc = "UnknownVersion"
  /\ scan # <<>>
  /\ intensity # <<>>
  /\ This = call.pre

(* C11: a decoded version-0 stream with N ranges leaves validRange of      *)
(* length N with validRange[i] true exactly when scan[i] < maxRange, for   *)
(* the maxRange of that stream; a decoded stream of version 1..7 leaves    *)
(* the stream's N validity bytes.                                          *)
C11_DefaultValidity ==
  (Decoded /\ call.arg.from = "file")
    => /\ Len(validRange) = Len(call.arg.wire.scan)
       /\ scan = call.arg.wire.scan
       /\ maxRange = call.arg.wire.maxRange
       /\ call.arg.version = 0
            => \A i \in 1..Len(validRange) :
                 (validRange[i] # 0) <=> (scan[i] < maxRange)
       /\ call.arg.version >= 1 => validRange = call.arg.wire.validRange

(* C11 witness: a version-0 decode that filled in both a valid and an      *)
(* invalid ray, differing from the validity bytes later versions carry.    *)
C11_Witness ==
  /\ Decoded
  /\ call.arg.from = "file"
  /\ call.arg.version = 0
  /\ \E i \in 1..Len(validRange) : validRange[i] # 0 /\ scan[i] < maxRange
  /\ \E i \in 1..Len(validRange) : validRange[i] = 0 /\ scan[i] >= maxRange
  /\ validRange # call.arg.wire.validRange
  /\ call.pre.maxRange # maxRange

NextCodec ==
  \/ Populate(CodecRecords)
  \/ writeToStream
  \/ readFromStream(StreamInputs)

SpecCodec == Init /\ [][NextCodec]_vars

(***************************************************************************)
(* Geometry.  cos and sin are libm's; here Bhaskara's approximation        *)
(* cos x = (pi^2 - 4x^2) / (pi^2 + x^2) on [-pi/2, pi/2], in thousandths,  *)
(* extended by symmetry, on angles taken in tens of units.                 *)
(***************************************************************************)
CosHalf(x) ==
  LET p == PI \div 10
      y == x \div 10
  IN (1000 * (p * p - 4 * y * y)) \div (p * p + y * y)

CosMilli(a) ==
  LET x == a % (2 * PI) IN
  IF 2 * x <= PI THEN CosHalf(x)
  ELSE IF 2 * x <= 3 * PI THEN -CosHalf(x - PI)
  ELSE CosHalf(2 * PI - x)

SinMilli(a) == CosMilli(a - PI \div 2)

(* mrpt::math::wrapTo2Pi: into [0, 2 pi)  *)
wrapTo2Pi(a) == a % (2 * PI)

(* Ang and dA as both exclusion filters set them up; dA is kept as the     *)
(* pair numerator / (N-1) so that no rounding enters.                      *)
StartAngle(ap, rtl) == IF rtl THEN -(ap \div 2) ELSE ap \div 2

StepNum(ap, rtl) == IF rtl THEN ap ELSE -ap

(* Ang after k additions of dA (k < N, N >= 2, or k = 0)  *)
RayAngle(k, ap, rtl, N) ==
  StartAngle(ap, rtl) + (IF k = 0 THEN 0 ELSE (k * StepNum(ap, rtl)) \div (N - 1))

(***************************************************************************)
(* truncateByDistanceAndAngle                                              *)
(***************************************************************************)
(* ang = fabs(k*aperture/nPts - aperture*0.5), times 2*nPts  *)
TruncAng2N(k, ap, nPts) == Abs(2 * k * ap - ap * nPts)

(* Whether the loop body sets *itValid = false for ray k (from 0).         *)
TruncHit(r, k, a) ==
  LET nPts == Len(r.scan)
      ang2N == TruncAng2N(k, r.aperture, nPts)
      xm == r.scan[k + 1] * CosMilli(ang2N \div (2 * nPts))
      far == r.scan[k + 1] < a.min_distance \/ ang2N > 2 * nPts * a.max_angle
  IN IF a.min_height # 0 \/ a.max_height # 0
     THEN far \/ xm > 1000 * (a.h - a.min_height)
              \/ xm < 1000 * (a.h - a.max_height)
     ELSE far

(* A loop body that stores the outcome of the test, *itValid = !(...),     *)
(* instead of only clearing the flag.                                      *)
TruncateByDistanceAndAngleStoring(r, a) ==
  LET nPts == Len(r.scan)
      band == a.min_height # 0 \/ a.max_height # 0
  IN IF nPts > 0 /\ band /\ ~(a.max_height > a.min_height)
     THEN [validRange |-> r.validRange, exc |-> "ASSERT", oob |-> {}]
     ELSE [validRange |->
             [i \in 1..Len(r.validRange) |->
                IF i <= nPts
                THEN (IF TruncHit(r, i - 1, a) THEN 0 ELSE 1)
                ELSE r.validRange[i]],
           exc |-> "none",
           oob |-> { k \in 0..(nPts - 1) : k >= Len(r.validRange) }]

(* The call: validRange after it, the exception, and the indices written   *)
(* past the end of validRange (itValid runs with itScan, unchecked).       *)
TruncateByDistanceAndAngle(r, a) ==
  LET nPts == Len(r.scan)
      band == a.min_height # 0 \/ a.max_height # 0
  IN IF nPts > 0 /\ band /\ ~(a.max_height > a.min_height)
     THEN [validRange |-> r.validRange, exc |-> "ASSERT", oob |-> {}]
     ELSE [validRange |->
             [i \in 1..Len(r.validRange) |->
                IF i <= nPts /\ TruncHit(r, i - 1, a) THEN 0
                ELSE r.validRange[i]],
           exc |-> "none",
           oob |-> { k \in 0..(nPts - 1) :
                       k >= Len(r.validRange) /\ TruncHit(r, k, a) }]

TruncateInputs(ap) ==
  { [min_distance |-> d, max_angle |-> m, min_height |-> b[1],
     max_height |-> b[2], h |-> b[3]] :
      d \in {0, 5}, m \in {PI, ap \div 3},
      b \in {<<0, 0, 0>>, <<1, 4, 12>>, <<4, 1, 12>>} }

(* An access past the end of the vector is undefined: the call may return  *)
(* having written there, or the process may die.                           *)
Outcomes(exc, oob) == IF oob = {} THEN {exc} ELSE {exc, "crash"}

truncateByDistanceAndAngle ==
  /\ \E a \in TruncateInputs(aperture) :
       LET t == TruncateByDistanceAndAngle(This, a) IN
       \E e \in Outcomes(t.exc, t.oob) :
         /\ validRange' = t.validRange
         /\ call' = Call("truncateByDistanceAndAngle", a, e, t.oob)
  /\ UNCHANGED <<scan, intensity, aperture, rightToLeft, maxRange,
                 sensorPose, stdError, timestamp, beamAperture, sensorLabel,
                 deltaPitch, m_cachedMap,
                 ptr_internal_build_points_map_from_scan2D, out>>

(***************************************************************************)
(* filterByExclusionAreas.  The pose and the polygon are the geometry      *)
(* library's: here a pose is a translation and a polygon an axis-aligned   *)
(* rectangle; coordinates are compared in thousandths of a range unit.     *)
(***************************************************************************)
composePoint(pose, lx, ly, lz) ==
  [x |-> lx + 1000 * pose.x, y |-> ly + 1000 * pose.y, z |-> lz + 1000 * pose.z]

PointIntoPolygon(poly, gx, gy) ==
  /\ 1000 * poly.x1 <= gx /\ gx <= 1000 * poly.x2
  /\ 1000 * poly.y1 <= gy /\ gy <= 1000 * poly.y2

InArea(g, area) ==
  /\ PointIntoPolygon(area.poly, g.x, g.y)
  /\ g.z >= 1000 * area.zmin /\ g.z <= 1000 * area.zmax

(* Lx, Ly of ray k (from 0) computed with Ang as it is after `adds`        *)
(* additions of dA, composed with the sensor pose.                         *)
LoopPoint(r, k, adds) ==
  LET Ang == RayAngle(adds, r.aperture, r.rightToLeft, Len(r.scan)) IN
  composePoint(r.sensorPose, r.scan[k + 1] * CosMilli(Ang),
               r.scan[k + 1] * SinMilli(Ang), 0)

RECURSIVE ExclusionAreasLoopHoldingAngle(_, _, _, _, _)
RECURSIVE ExclusionAreasLoop(_, _, _, _, _)

(* A loop whose branch for an already invalid ray continues without        *)
(* Ang += dA.                                                              *)
ExclusionAreasLoopHoldingAngle(r, areas, k, adds, v) ==
  IF k >= Len(r.scan) THEN v
  ELSE IF v[k + 1] = 0
  THEN ExclusionAreasLoopHoldingAngle(r, areas, k + 1, adds, v)
  ELSE LET g == LoopPoint(r, k, adds) IN
       ExclusionAreasLoopHoldingAngle(r, areas, k + 1, adds + 1,
         IF \E j \in 1..Len(areas) : InArea(g, areas[j])
         THEN [v EXCEPT ![k + 1] = 0] ELSE v)

(* The loop over the rays from ray k on: v is validRange so far, adds the  *)
(* number of times Ang += dA has run.  An invalid ray advances Ang and is  *)
(* passed over; a valid one is located with Ang, Ang advances, and the     *)
(* first area that holds the point clears its flag.                        *)
ExclusionAreasLoop(r, areas, k, adds, v) ==
  IF k >= Len(r.scan) THEN v
  ELSE IF v[k + 1] = 0
  THEN ExclusionAreasLoop(r, areas, k + 1, adds + 1, v)
  ELSE LET g == LoopPoint(r, k, adds) IN
       ExclusionAreasLoop(r, areas, k + 1, adds + 1,
         IF \E j \in 1..Len(areas) : InArea(g, areas[j])
         THEN [v EXCEPT ![k + 1] = 0] ELSE v)

FilterByExclusionAreas(r, areas) ==
  IF areas = <<>>
  THEN [validRange |-> r.validRange, exc |-> "none"]
  ELSE IF Len(r.scan) # Len(r.validRange)
  THEN [validRange |-> r.validRange, exc |-> "ASSERT"]
  ELSE [validRange |-> ExclusionAreasLoop(r, areas, 0, 0, r.validRange),
        exc |-> "none"]

Square(cx, cy, half) ==
  [x1 |-> cx - half, x2 |-> cx + half, y1 |-> cy - half, y2 |-> cy + half]

AreaInputs ==
  { <<>>,
    << [poly |-> Square(11, 0, 3), zmin |-> 0, zmax |-> 10] >>,
    << [poly |-> Square(11, 0, 3), zmin |-> 6, zmax |-> 10] >>,
    << [poly |-> Square(0, 0, 30), zmin |-> 0, zmax |-> 10] >> }

filterByExclusionAreas ==
  /\ \E areas \in AreaInputs :
       LET f == FilterByExclusionAreas(This, areas) IN
         /\ validRange' = f.validRange
         /\ call' = Call("filterByExclusionAreas", areas, f.exc, {})
  /\ UNCHANGED <<scan, intensity, aperture, rightToLeft, maxRange,
                 sensorPose, stdError, timestamp, beamAperture, sensorLabel,
                 deltaPitch, m_cachedMap,
                 ptr_internal_build_points_map_from_scan2D, out>>

(***************************************************************************)
(* filterByExclusionAngles                                                 *)
(***************************************************************************)
(* int ap_idx = wrapTo2Pi(angle - Ang) / dA, with dA = StepNum / (N-1):    *)
(* the quotient converted to int (for N = 1, dA is infinite and the        *)
(* quotient 0).                                                            *)
RawIndex(angle, ap, rtl, N) ==
  TruncDiv(wrapTo2Pi(angle - StartAngle(ap, rtl)) * (N - 1), StepNum(ap, rtl))

(* if (idx<0) idx=0;  if (idx>(int)sizeRangeScan) idx=sizeRangeScan-1;     *)
ClampIndex(idx, N) ==
  IF idx < 0 THEN 0 ELSE IF idx > N THEN N - 1 ELSE idx

(* The indices (from 0) at which one pair's loops write validRange[i].     *)
PairWrites(pair, ap, rtl, N) ==
  LET idx_ini == ClampIndex(RawIndex(pair[1], ap, rtl, N), N)
      idx_end == ClampIndex(RawIndex(pair[2], ap, rtl, N), N)
  IN IF idx_end >= idx_ini
     THEN idx_ini..idx_end
     ELSE 0..(idx_end - 1) \cup idx_ini..(N - 1)

AngleWrites(angles, ap, rtl, N) ==
  UNION { PairWrites(angles[j], ap, rtl, N) : j \in 1..Len(angles) }

FilterByExclusionAngles(r, angles) ==
  LET N == Len(r.scan)
      w == AngleWrites(angles, r.aperture, r.rightToLeft, N)
  IN IF angles = <<>> \/ (N = 0 /\ Len(r.validRange) = 0)
     THEN [validRange |-> r.validRange, exc |-> "none", oob |-> {}]
     ELSE IF N # Len(r.validRange)
     THEN [validRange |-> r.validRange, exc |-> "ASSERT", oob |-> {}]
     ELSE [validRange |->
             [i \in 1..N |-> IF (i - 1) \in w THEN 0 ELSE r.validRange[i]],
           exc |-> "none",
           oob |-> { i \in w : i >= N }]

(* The empty list, the spec's wrapping example [1.0, -1.0] rad and its     *)
(* reverse, a direction behind the sweep (2.5 rad), and the angle of each  *)
(* ray.                                                                    *)
AngleInputs(ap, rtl, N) ==
  { <<>>, << <<Rad(1, 1), -Rad(1, 1)>> >>, << <<-Rad(1, 1), Rad(1, 1)>> >>,
    << <<Rad(5, 2), Rad(5, 2)>> >> }
    \cup (IF N >= 2
          THEN { << <<RayAngle(k, ap, rtl, N), RayAngle(k, ap, rtl, N)>> >> :
                   k \in 0..(N - 1) }
          ELSE {})

filterByExclusionAngles ==
  /\ \E angles \in AngleInputs(aperture, rightToLeft, Len(scan)) :
       LET f == FilterByExclusionAngles(This, angles) IN
       \E e \in Outcomes(f.exc, f.oob) :
         /\ validRange' = f.validRange
         /\ call' = Call("filterByExclusionAngles", angles, e, f.oob)
  /\ UNCHANGED <<scan, intensity, aperture, rightToLeft, maxRange,
                 sensorPose, stdError, timestamp, beamAperture, sensorLabel,
                 deltaPitch, m_cachedMap,
                 ptr_internal_build_points_map_from_scan2D, out>>

(***************************************************************************)
(* The points-map cache.  mrpt-maps sets the builder pointer at its        *)
(* startup; the builder makes the map out of the scan as it is then.       *)
(***************************************************************************)
BuildPointsMap(r) == [scan |-> r.scan, validRange |-> r.validRange]

RegisterBuilder ==
  /\ call.op = "constructor"
  /\ ~ptr_internal_build_points_map_from_scan2D
  /\ ptr_internal_build_points_map_from_scan2D' = TRUE
  /\ UNCHANGED obsVars
  /\ UNCHANGED <<m_cachedMap, out, call>>

InternalBuildAuxPointsMap(r, ptr, cache) ==
  IF ~ptr
  THEN [cache |-> cache, exc |-> "UnlinkedDependency"]
  ELSE [cache |-> <<BuildPointsMap(r)>>, exc |-> "none"]

internal_buildAuxPointsMap ==
  /\ LET b == InternalBuildAuxPointsMap(
                This, ptr_internal_build_points_map_from_scan2D, m_cachedMap)
     IN /\ m_cachedMap' = b.cache
        /\ call' = Call("internal_buildAuxPointsMap", <<>>, b.exc, {})
  /\ UNCHANGED obsVars
  /\ UNCHANGED <<ptr_internal_build_points_map_from_scan2D, out>>

(***************************************************************************)
(* Claims about the filters, checked under Spec, and about the cache,      *)
(* checked under SpecCache.                                                *)
(***************************************************************************)
AllValid(v) == \A i \in 1..Len(v) : v[i] # 0

Invalid(v) == { i \in 1..Len(v) : v[i] = 0 }

(* A call of filterByExclusionAngles that got past its checks.             *)
AnglesRan ==
  /\ call.op = "filterByExclusionAngles"
  /\ call.arg # <<>>
  /\ Len(call.pre.scan) = Len(call.pre.validRange)

(* The list that excludes [angle(k), angle(k)], by the forward mapping.    *)
OnlyRay(k, r) ==
  LET a == RayAngle(k, r.aperture, r.rightToLeft, Len(r.scan)) IN << <<a, a>> >>

(* C3 as claimed: a map in the cache is the map of the record as it is.    *)
C3_CacheFresh ==
  m_cachedMap # <<>> => m_cachedMap = <<BuildPointsMap(This)>>

(* C4 as claimed: with N >= 2 rays, filterByExclusionAngles touches        *)
(* validRange only at indices 0..N-1.                                      *)
C4_AngleIndicesInBounds ==
  (AnglesRan /\ Len(call.pre.scan) >= 2) => call.oob = {}

(* C5 as claimed: with N >= 2 rays and aperture < 2 pi, in either scan     *)
(* direction, the index computed for angle(k) is k, and excluding          *)
(* [angle(k), angle(k)] on an all-valid scan invalidates exactly ray k.    *)
C5_InverseOfForward ==
  (AnglesRan /\ Len(call.pre.scan) >= 2 /\ call.pre.aperture < 2 * PI)
    => \A k \in 0..(Len(call.pre.scan) - 1) :
         call.arg = OnlyRay(k, call.pre)
           => /\ ClampIndex(RawIndex(call.arg[1][1], call.pre.aperture,
                                     call.pre.rightToLeft, Len(call.pre.scan)),
                            Len(call.pre.scan)) = k
              /\ (AllValid(call.pre.validRange)
                    => Invalid(validRange) = {k + 1})

(* C6 as claimed: 5 rays, RightToLeft, aperture pi, all valid: excluding   *)
(* [1.0, -1.0] invalidates rays 0 and 4 and leaves ray 2 valid.            *)
C6_WrapExample ==
  (AnglesRan /\ call.exc = "none"
     /\ Len(call.pre.scan) = 5 /\ call.pre.rightToLeft
     /\ call.pre.aperture = PI /\ AllValid(call.pre.validRange)
     /\ call.arg = << <<Rad(1, 1), -Rad(1, 1)>> >>)
    => (validRange[1] = 0 /\ validRange[5] = 0 /\ validRange[3] # 0)

(* |A0 + k*aperture/(N-1)| > max_angle, without rounding  *)
GeometryAngleExceeds(k, ap, N, max_angle) ==
  Abs(2 * k * ap - ap * (N - 1)) > 2 * (N - 1) * max_angle

(* C7 as claimed: with N >= 2 rays, no height band and no range below      *)
(* min_distance, truncateByDistanceAndAngle invalidates ray k exactly when *)
(* |A0 + k*aperture/(N-1)| > max_angle.                                    *)
C7_TruncateUsesGeometryAngle ==
  (call.op = "truncateByDistanceAndAngle" /\ call.exc = "none"
     /\ Len(call.pre.scan) >= 2
     /\ Len(call.pre.validRange) = Len(call.pre.scan)
     /\ AllValid(call.pre.validRange)
     /\ call.arg.min_height = 0 /\ call.arg.max_height = 0
     /\ call.arg.min_distance = 0)
    => \A k \in 0..(Len(scan) - 1) :
         (validRange[k + 1] = 0)
           <=> GeometryAngleExceeds(k, aperture, Len(scan), call.arg.max_angle)

(* C8 as claimed: on a record with scan non-empty and validRange of        *)
(* another length, each filter (the list filters with a non-empty list)    *)
(* throws before it touches validRange.                                    *)
C8_FiltersFailFast ==
  (/\ call.op \in {"truncateByDistanceAndAngle", "filterByExclusionAreas",
                   "filterByExclusionAngles"}
   /\ call.pre.scan # <<>>
   /\ Len(call.pre.scan) # Len(call.pre.validRange)
   /\ (call.op # "truncateByDistanceAndAngle" => call.arg # <<>>))
    => (call.exc = "ASSERT" /\ call.oob = {}
          /\ validRange = call.pre.validRange)

FilterOps ==
  {"truncateByDistanceAndAngle", "filterByExclusionAreas",
   "filterByExclusionAngles"}

(* C12: after any call of a filter, with any arguments and whatever the    *)
(* calls before it, every ray that was invalid before the call is still    *)
(* invalid, validRange has the length it had, and every other field of the *)
(* record (scan, intensity and the scalar parameters) has the value it had *)
(* before the call.                                                        *)
C12_ValidityMonotone ==
  call.op \in FilterOps
    => /\ Len(validRange) = Len(call.pre.validRange)
       /\ \A i \in 1..Len(validRange) :
            call.pre.validRange[i] = 0 => validRange[i] = 0
       /\ [This EXCEPT !.validRange = call.pre.validRange] = call.pre

(* A filter returned having invalidated one ray, kept another valid, and   *)
(* passed over a ray that was invalid already and that its own test does   *)
(* not reject.                                                             *)
C12_Witness ==
  /\ call.op = "truncateByDistanceAndAngle"
  /\ call.exc = "none"
  /\ Len(call.pre.validRange) = Len(call.pre.scan)
  /\ \E i \in 1..Len(validRange) :
       /\ call.pre.validRange[i] = 0 /\ validRange[i] = 0
       /\ ~TruncHit(call.pre, i - 1, call.arg)
  /\ \E i \in 1..Len(validRange) : call.pre.validRange[i] # 0 /\ validRange[i] = 0
  /\ \E i \in 1..Len(validRange) : call.pre.validRange[i] # 0 /\ validRange[i] # 0

(* The point the specification gives ray k (from 0): the range at          *)
(* angle(k) = A0 + k*dA, in the sensor's plane, composed with the pose.    *)
RayPoint(r, k) ==
  LET angle == RayAngle(k, r.aperture, r.rightToLeft, Len(r.scan)) IN
  composePoint(r.sensorPose, r.scan[k + 1] * CosMilli(angle),
               r.scan[k + 1] * SinMilli(angle), 0)

(* A call of filterByExclusionAreas with a non-empty list on a record      *)
(* whose scan and validRange have one length.                              *)
AreasRan ==
  /\ call.op = "filterByExclusionAreas"
  /\ call.arg # <<>>
  /\ Len(call.pre.scan) = Len(call.pre.validRange)

(* C13: after filterByExclusionAreas with a non-empty list, on a record    *)
(* with as many validity flags as ranges, the call has returned and ray k  *)
(* is invalid exactly when it was invalid before or the point of its range *)
(* at angle(k) = A0 + k*dA, composed with the sensor pose, is inside the   *)
(* polygon and the height interval of some area, however many of the rays  *)
(* before it were invalid.                                                 *)
C13_AreasInvalidateMatching ==
  AreasRan
    => /\ call.exc = "none"
       /\ Len(validRange) = Len(scan)
       /\ \A k \in 0..(Len(scan) - 1) :
            (validRange[k + 1] = 0)
              <=> \/ call.pre.validRange[k + 1] = 0
                  \/ \E j \in 1..Len(call.arg) :
                       InArea(RayPoint(call.pre, k), call.arg[j])

(* The filter invalidated a valid ray that comes right after an invalid    *)
(* one, and kept valid a ray that comes after an invalid one.              *)
C13_Witness ==
  /\ AreasRan
  /\ \E k \in 1..(Len(scan) - 1) :
       /\ call.pre.validRange[k] = 0
       /\ call.pre.validRange[k + 1] # 0
       /\ validRange[k + 1] = 0
  /\ \E k \in 1..(Len(scan) - 1) :
       /\ \E i \in 1..k : call.pre.validRange[i] = 0
       /\ call.pre.validRange[k + 1] # 0
       /\ validRange[k + 1] # 0

Next ==
  \/ Populate(FilterRecords)
  \/ truncateByDistanceAndAngle
  \/ filterByExclusionAreas
  \/ filterByExclusionAngles

Spec == Init /\ [][Next]_vars

NextCache ==
  \/ RegisterBuilder
  \/ Populate(CacheRecords)
  \/ internal_buildAuxPointsMap
  \/ readFromStream(CacheStreams)
  \/ truncateByDistanceAndAngle
  \/ filterByExclusionAreas
  \/ filterByExclusionAngles

SpecCache == Init /\ [][NextCache]_vars

(***************************************************************************)
(* T2DScanProperties: the key (nRays, aperture, rightToLeft) of a scan and *)
(* its operator<.                                                          *)
(***************************************************************************)
GetScanProperties(r) ==
  [nRays |-> Len(r.scan), aperture |-> r.aperture,
   rightToLeft |-> r.rightToLeft]

(* return (a.nRays<b.nRays || a.aperture<b.aperture ||                     *)
(*         (a.rightToLeft && !b.rightToLeft));                             *)
OperatorLess(a, b) ==
  \/ a.nRays < b.nRays
  \/ a.aperture < b.aperture
  \/ (a.rightToLeft /\ ~b.rightToLeft)

(* The keys of the scans a sensor can deliver.                             *)
ScanPropertiesInputs == { GetScanProperties(r) : r \in FilterRecords }

(* A keyed container looks up the properties a of this scan against a key  *)
(* b it holds: it takes a with getScanProperties and compares both ways.   *)
operatorLess ==
  /\ \E b \in ScanPropertiesInputs :
       LET a == GetScanProperties(This) IN
       call' = Call("operator<",
                    [a |-> a, b |-> b, a_lt_a |-> OperatorLess(a, a),
                     a_lt_b |-> OperatorLess(a, b),
                     b_lt_a |-> OperatorLess(b, a)],
                    "none", {})
  /\ UNCHANGED <<obsVars, m_cachedMap,
                 ptr_internal_build_points_map_from_scan2D, out>>

(* C14 as claimed: operator< is a strict ordering: no a has a < a, and no  *)
(* a and b have both a < b and b < a.                                      *)
C14_StrictOrdering ==
  call.op = "operator<"
    => /\ ~call.arg.a_lt_a
       /\ ~(call.arg.a_lt_b /\ call.arg.b_lt_a)

NextProperties ==
  \/ Populate(FilterRecords)
  \/ operatorLess

SpecProperties == Init /\ [][NextProperties]_vars
====
